---- MODULE Spec2Model ----
(***************************************************************************)
(* Verification model of hotel-splitter: the calculator of                 *)
(* src/calculations.ts (calculateNights, getNightDates, calculateCosts)    *)
(* and the state handling of src/App.tsx (hash parsing, the handlers and   *)
(* the resize effect).                                                     *)
(*                                                                         *)
(* Time values are the ECMAScript time values of Date objects, counted in  *)
(* whole minutes since 1970-01-01T00:00Z instead of milliseconds (every    *)
(* time value the calculator handles is a whole minute).  A JavaScript     *)
(* number that may be NaN is a record [nan, v].                            *)
(***************************************************************************)
EXTENDS Integers, Sequences, FiniteSets, TLC

VARIABLES
    tz,            \* the host's local time zone (environment of Date)
    checkIn,       \* argument checkIn: a string
    checkOut,      \* argument checkOut: a string
    nightsArg,     \* argument nights of getNightDates
    nightsResult,  \* value returned by calculateNights
    datesResult,   \* outcome of getNightDates: [raised, dates]
    people,        \* argument people of calculateCosts: the roster
    totalPrice,    \* argument totalPrice of calculateCosts
    nights,        \* argument nights of calculateCosts
    costs,         \* value returned by calculateCosts
    phase,         \* "input", then the function that has returned:
                   \* "nights", "dates" or "costs"; "app" while App runs
    state,         \* App: the AppState held by useState
    hash,          \* App: window.location.hash
    now,           \* App: the value Date.now() returns
    crashed,       \* App: a render or an effect has thrown
    lastOp         \* App: the operation that led to this state

dateVars == <<tz, checkIn, checkOut, nightsArg, nightsResult, datesResult>>
costVars == <<people, totalPrice, nights, costs>>
appVars == <<state, hash, now, crashed, lastOp>>
vars == <<dateVars, costVars, phase, appVars>>

----------------------------------------------------------------------------
(* Bounds *)

MaxSpan == 3       \* check-out is drawn within MaxSpan days of check-in
MaxNights == 3     \* largest night count passed to getNightDates
MaxPeople == 3     \* largest roster
MaxCostNights == 2 \* largest night count with arbitrary attendance flags
MaxStay == 6       \* largest night count with everybody present
Precision == 8     \* bits of a significand (53 in a JavaScript number)
MaxAppNights == 2  \* App: the dates offered span MaxAppNights nights
MaxAppPeople == 2  \* App: largest roster the add button builds
MaxClock == 2      \* App: Date.now() takes the values 1..MaxClock

Years == {2023, 2024}

----------------------------------------------------------------------------
(* JavaScript numbers that may be NaN *)

NaN == [nan |-> TRUE, v |-> 0]
Num(n) == [nan |-> FALSE, v |-> n]

----------------------------------------------------------------------------
(* The proleptic Gregorian calendar of ECMAScript Date *)

IsLeapYear(y) == (y % 4 = 0 /\ y % 100 # 0) \/ y % 400 = 0

DaysInMonth(y, m) ==
    IF m = 2 THEN (IF IsLeapYear(y) THEN 29 ELSE 28)
    ELSE IF m \in {4, 6, 9, 11} THEN 30 ELSE 31

\* Day number (days since 1970-01-01) of the civil date y-m-d; d may lie
\* outside the month, as MakeDay allows (setDate relies on it).
DaysFromCivil(y, m, d) ==
    LET yy  == IF m <= 2 THEN y - 1 ELSE y
        era == yy \div 400
        yoe == yy - era * 400
        mp  == IF m > 2 THEN m - 3 ELSE m + 9
        doy == (153 * mp + 2) \div 5 + d - 1
        doe == yoe * 365 + yoe \div 4 - yoe \div 100 + doy
    IN  era * 146097 + doe - 719468

\* Civil date <<y, m, d>> of a day number (YearFromTime, MonthFromTime,
\* DateFromTime).
CivilFromDays(z) ==
    LET zz  == z + 719468
        era == zz \div 146097
        doe == zz - era * 146097
        yoe == (doe - doe \div 1460 + doe \div 36524 - doe \div 146096) \div 365
        doy == doe - (365 * yoe + yoe \div 4 - yoe \div 100)
        mp  == (5 * doy + 2) \div 153
        d   == doy - (153 * mp + 2) \div 5 + 1
        m   == IF mp < 10 THEN mp + 3 ELSE mp - 9
        y   == yoe + era * 400 + (IF m <= 2 THEN 1 ELSE 0)
    IN  <<y, m, d>>

----------------------------------------------------------------------------
(* Strings handed to the calculator *)

EmptyString == [kind |-> "empty", y |-> 0, m |-> 0, d |-> 0]
\* a non-empty string that is no date, such as "abc"
TextString == [kind |-> "text", y |-> 0, m |-> 0, d |-> 0]
\* the string YYYY-MM-DD
DateString(y, m, d) == [kind |-> "ymd", y |-> y, m |-> m, d |-> d]

ValidDates ==
    {DateString(y, m, d) : <<y, m, d>> \in
        {t \in Years \X (1..12) \X (1..31) : t[3] <= DaysInMonth(t[1], t[2])}}

\* the calendar day number a valid date string names
DayOf(s) == DaysFromCivil(s.y, s.m, s.d)

----------------------------------------------------------------------------
(* Local time of the host *)

MinutesPerDay == 60 * 24

\* A zone: standard offset east of UTC in minutes, and the intervals of UTC
\* instants <<from, to>> in which daylight saving time (one hour further
\* east) is in force.
Zone(std, dst) == [std |-> std, dst |-> dst]

\* the UTC instant h hours into the day y-m-d
Instant(y, m, d, h) == DaysFromCivil(y, m, d) * MinutesPerDay + h * 60

UTC == Zone(0, {})
NewYork ==
    Zone(-300, {<<Instant(2023, 3, 12, 7), Instant(2023, 11, 5, 6)>>,
                <<Instant(2024, 3, 10, 7), Instant(2024, 11, 3, 6)>>})
Berlin ==
    Zone(60, {<<Instant(2023, 3, 26, 1), Instant(2023, 10, 29, 1)>>,
              <<Instant(2024, 3, 31, 1), Instant(2024, 10, 27, 1)>>})
Kolkata == Zone(330, {})

TimeZones == {UTC, NewYork, Berlin, Kolkata}

\* offset of local time from UTC at the UTC instant t
LocalTZA(z, t) ==
    z.std + (IF \E i \in z.dst : i[1] <= t /\ t < i[2] THEN 60 ELSE 0)

\* UTC instant of the local time tl (tl is read in standard time to decide
\* which offset applies, as ECMAScript's UTC(t) does)
UTCOfLocal(z, tl) == tl - LocalTZA(z, tl - z.std)

\* new Date(s + 'T00:00:00'): local midnight of the date, or an invalid Date
ParseLocalMidnight(z, s) ==
    IF s.kind = "ymd"
    THEN Num(UTCOfLocal(z, DayOf(s) * MinutesPerDay))
    ELSE NaN

----------------------------------------------------------------------------
(* calculateNights *)

\* calculateNights without the check-out <= check-in test of line 23
calculateNights_NoOrderTest(z, ci, co) ==
    IF ci.kind = "empty" \/ co.kind = "empty" THEN Num(0)
    ELSE LET checkInDate  == ParseLocalMidnight(z, ci)
             checkOutDate == ParseLocalMidnight(z, co)
         IN  IF checkInDate.nan \/ checkOutDate.nan
             THEN NaN
             ELSE Num((checkOutDate.v - checkInDate.v) \div MinutesPerDay)

calculateNights(z, ci, co) ==
    IF ci.kind = "empty" \/ co.kind = "empty" THEN Num(0)
    ELSE LET checkInDate  == ParseLocalMidnight(z, ci)
             checkOutDate == ParseLocalMidnight(z, co)
         IN  IF checkInDate.nan \/ checkOutDate.nan
             THEN NaN    \* NaN <= NaN is false; NaN - NaN and floor(NaN) are NaN
             ELSE IF checkOutDate.v <= checkInDate.v THEN Num(0)
             ELSE Num((checkOutDate.v - checkInDate.v) \div MinutesPerDay)

----------------------------------------------------------------------------
(* getNightDates *)

\* Date.prototype.setDate(dt) on the valid time value t: same local month
\* and time of day, day of month dt (MakeDay carries dt over month ends)
SetDate(z, t, dt) ==
    LET local == t + LocalTZA(z, t)
        civil == CivilFromDays(local \div MinutesPerDay)
        day   == DaysFromCivil(civil[1], civil[2], 1) + dt - 1
    IN  UTCOfLocal(z, day * MinutesPerDay + (local % MinutesPerDay))

\* Date.prototype.getDate(): local day of month
GetDate(z, t) == CivilFromDays((t + LocalTZA(z, t)) \div MinutesPerDay)[3]

\* toISOString().split('T')[0]: the UTC calendar date of t
ISODate(t) ==
    LET civil == CivilFromDays(t \div MinutesPerDay)
    IN  DateString(civil[1], civil[2], civil[3])

Returned(dates) == [raised |-> FALSE, dates |-> dates]
\* toISOString of an invalid Date throws RangeError
Raised == [raised |-> TRUE, dates |-> <<>>]

getNightDates(z, ci, n) ==
    IF ci.kind = "empty" \/ (~n.nan /\ n.v = 0) THEN Returned(<<>>)
    ELSE LET checkInDate == ParseLocalMidnight(z, ci)
             \* the loop runs while i < n, never for NaN
             count == IF n.nan \/ n.v < 0 THEN 0 ELSE n.v
         IN  IF count = 0 THEN Returned(<<>>)
             ELSE IF checkInDate.nan THEN Raised
             ELSE Returned([i \in 1..count |->
                     ISODate(SetDate(z, checkInDate.v,
                                     GetDate(z, checkInDate.v) + (i - 1)))])

----------------------------------------------------------------------------
(* JavaScript numbers of the cost arithmetic: binary floating point with a  *)
(* significand of Precision bits, rounded to nearest, ties to even.  A      *)
(* number is [m, e], standing for m * 2^e, with m = 0 = e or                 *)
(* 2^(Precision-1) <= |m| < 2^Precision; exponents are unbounded.            *)

RECURSIVE Pow2(_)
Pow2(k) == IF k = 0 THEN 1 ELSE 2 * Pow2(k - 1)

Abs(x) == IF x < 0 THEN -x ELSE x
Sign(x) == IF x < 0 THEN -1 ELSE 1
Min(x, y) == IF x <= y THEN x ELSE y

Zero == [m |-> 0, e |-> 0]

\* a significand m of a number other than 0 has
\* MinSignificand <= |m| < SignificandLimit
MinSignificand == Pow2(Precision - 1)
SignificandLimit == Pow2(Precision)

\* the number nearest to (a / b) * 2^e, for b > 0
RECURSIVE RoundRatio(_, _, _)
RoundRatio(a, b, e) ==
    IF a = 0 THEN Zero
    ELSE IF Abs(a) >= b * SignificandLimit THEN RoundRatio(a, 2 * b, e + 1)
    ELSE IF Abs(a) < b * MinSignificand THEN RoundRatio(2 * a, b, e - 1)
    ELSE LET q  == Abs(a) \div b
             r  == Abs(a) % b
             up == 2 * r > b \/ (2 * r = b /\ q % 2 = 1)
             m  == IF up THEN q + 1 ELSE q
         IN  IF m = SignificandLimit
             THEN [m |-> Sign(a) * MinSignificand, e |-> e + 1]
             ELSE [m |-> Sign(a) * m, e |-> e]

\* the number of an integer, and of the decimal literal a/b
FromInt(k) == RoundRatio(k, 1, 0)
Decimal(a, b) == RoundRatio(a, b, 0)

\* x / y, for y # 0
FDiv(x, y) == RoundRatio(x.m * Sign(y.m), Abs(y.m), x.e - y.e)

\* x + y
FAdd(x, y) ==
    IF x.m = 0 THEN y
    ELSE IF y.m = 0 THEN x
    ELSE LET e == Min(x.e, y.e)
         IN  RoundRatio(x.m * Pow2(x.e - e) + y.m * Pow2(y.e - e), 1, e)

----------------------------------------------------------------------------
(* calculateCosts *)

\* person.nights[i] is truthy (a missing flag is undefined, falsy); the
\* model counts nights from 1
Present(person, i) == i <= Len(person.nights) /\ person.nights[i]

\* nothing to split, with the price test of line 60 left out
NothingToSplit_IgnoresPrice(ppl, price, n) == n = 0 \/ Len(ppl) = 0

\* nothing to split, with a price test that also rejects negative prices
NothingToSplit_RejectsNegative(ppl, price, n) ==
    n = 0 \/ price.m <= 0 \/ Len(ppl) = 0

NothingToSplit(ppl, price, n) == n = 0 \/ price = Zero \/ Len(ppl) = 0

\* the size of the roster instead of the people present
PeopleThisNight_WholeRoster(ppl, i) == Len(ppl)

\* people.filter((p) => p.nights[i]).length
PeopleThisNight(ppl, i) ==
    Cardinality({k \in 1..Len(ppl) : Present(ppl[k], i)})

\* everybody present is charged the whole nightly price
CostThisNight_Undivided(ppl, pricePerNight, i) ==
    IF PeopleThisNight(ppl, i) > 0 THEN pricePerNight ELSE Zero

CostThisNight(ppl, pricePerNight, i) ==
    LET peopleThisNight == PeopleThisNight(ppl, i)
    IN  IF peopleThisNight > 0
        THEN FDiv(pricePerNight, FromInt(peopleThisNight))
        ELSE Zero

\* perNight with one entry per flag the person has, not one per night
PerNight_OwnLength(ppl, pricePerNight, person, n) ==
    [i \in 1..Len(person.nights) |->
        IF Present(person, i) THEN CostThisNight(ppl, pricePerNight, i)
        ELSE Zero]

\* the perNight array the inner loop builds for a person
PerNight(ppl, pricePerNight, person, n) ==
    [i \in 1..n |->
        IF Present(person, i) THEN CostThisNight(ppl, pricePerNight, i)
        ELSE Zero]

\* a total that adds the nightly price instead of the person's share
RECURSIVE PersonTotal_AddsNightlyPrice(_, _, _, _)
PersonTotal_AddsNightlyPrice(ppl, pricePerNight, person, n) ==
    IF n = 0 THEN Zero
    ELSE IF Present(person, n)
    THEN FAdd(PersonTotal_AddsNightlyPrice(ppl, pricePerNight, person, n - 1),
              pricePerNight)
    ELSE PersonTotal_AddsNightlyPrice(ppl, pricePerNight, person, n - 1)

\* a total whose loop stops one night early
RECURSIVE PersonTotal_StopsEarly(_, _, _, _)
PersonTotal_StopsEarly(ppl, pricePerNight, person, n) ==
    IF n <= 1 THEN Zero
    ELSE IF Present(person, n - 1)
    THEN FAdd(PersonTotal_StopsEarly(ppl, pricePerNight, person, n - 1),
              CostThisNight(ppl, pricePerNight, n - 1))
    ELSE PersonTotal_StopsEarly(ppl, pricePerNight, person, n - 1)

\* the total the inner loop accumulates over nights 1..n
RECURSIVE PersonTotal(_, _, _, _)
PersonTotal(ppl, pricePerNight, person, n) ==
    IF n = 0 THEN Zero
    ELSE IF Present(person, n)
    THEN FAdd(PersonTotal(ppl, pricePerNight, person, n - 1),
              CostThisNight(ppl, pricePerNight, n))
    ELSE PersonTotal(ppl, pricePerNight, person, n - 1)

calculateCosts(ppl, price, n) ==
    IF NothingToSplit(ppl, price, n) THEN <<>>
    ELSE LET pricePerNight == FDiv(price, FromInt(n))
         IN  [k \in 1..Len(ppl) |->
                [personId |-> ppl[k].id,
                 perNight |-> PerNight(ppl, pricePerNight, ppl[k], n),
                 total    |-> PersonTotal(ppl, pricePerNight, ppl[k], n)]]

----------------------------------------------------------------------------
(* App (src/App.tsx): the values of its state.                              *)
(*                                                                          *)
(* A JSON value read where the code expects a string is a string record of  *)
(* kind "undefined" (a missing field, or a falsy one such as null or 0) or  *)
(* "number" (a number other than 0); totalPrice is [kind, v] and the roster *)
(* is [kind, items], an array of persons [id, name, nights] unless the JSON *)
(* value was a number.                                                      *)

Max(x, y) == IF x >= y THEN x ELSE y

UndefinedString == [kind |-> "undefined", y |-> 0, m |-> 0, d |-> 0]
NumberAsString == [kind |-> "number", y |-> 0, m |-> 0, d |-> 0]

EmptyPrice == [kind |-> "empty", v |-> 0]
\* the decimal string of the integer v, as typed into the price input
PriceString(v) == [kind |-> "decimal", v |-> v]
UndefinedPrice == [kind |-> "undefined", v |-> 0]
\* the JSON number v, other than 0, where the string is expected
NumberPrice(v) == [kind |-> "number", v |-> v]

People(items) == [kind |-> "array", items |-> items]
UndefinedPeople == [kind |-> "undefined", items |-> <<>>]
\* a JSON number other than 0 where the array is expected
NumberPeople == [kind |-> "number", items |-> <<>>]

Person(id, name, flags) == [id |-> id, name |-> name, nights |-> flags]

AppState(tp, ci, co, ppl) ==
    [totalPrice |-> tp, checkInDate |-> ci, checkOutDate |-> co,
     people |-> ppl]

DefaultState == AppState(EmptyPrice, EmptyString, EmptyString, People(<<>>))

\* what JSON.parse returned when it was no object with these fields: every
\* property read gives undefined
NoFields ==
    AppState(UndefinedPrice, UndefinedString, UndefinedString,
             UndefinedPeople)

\* window.location.hash: empty, or text after "#" that decodeURIComponent
\* rejects ("undecodable"), that JSON.parse rejects ("notjson"), that is the
\* JSON text null, a JSON number, string, boolean or array ("scalar"), or a
\* JSON object with the fields of value
Hash(kind, value) == [kind |-> kind, value |-> value]
EmptyHash == Hash("empty", NoFields)

\* encodeURIComponent(JSON.stringify(state))
Encode(s) == Hash("object", s)

\* state.totalPrice || '', state.checkInDate || '', state.people || []
OrEmptyPrice(v) == IF v.kind \in {"undefined", "empty"} THEN EmptyPrice ELSE v
OrEmptyString(v) ==
    IF v.kind \in {"undefined", "empty"} THEN EmptyString ELSE v
OrNoPeople(v) == IF v.kind = "undefined" THEN People(<<>>) ELSE v

parseStateFromHash(h) ==
    IF h.kind = "empty" THEN DefaultState
    \* decodeURIComponent or JSON.parse throws, or a property of null is
    \* read: the catch block returns the default
    ELSE IF h.kind \in {"undecodable", "notjson", "null"} THEN DefaultState
    ELSE LET parsed == IF h.kind = "object" THEN h.value ELSE NoFields
         IN  AppState(OrEmptyPrice(parsed.totalPrice),
                      OrEmptyString(parsed.checkInDate),
                      OrEmptyString(parsed.checkOutDate),
                      OrNoPeople(parsed.people))

\* parseFloat(totalPrice) || 0
ParsePrice(t) ==
    IF t.kind \in {"decimal", "number"} THEN FromInt(t.v) ELSE Zero

\* the dates the date inputs are set to
AppDates ==
    {EmptyString} \cup {DateString(2024, 1, 15 + i) : i \in 0..MaxAppNights}

\* the values checkInDate and checkOutDate take
AppStrings == AppDates \cup {TextString, NumberAsString}

\* the values of calculateNights and getNightDates App reads, tabulated
NightsTable ==
    [z \in TimeZones |-> [ci \in AppStrings |-> [co \in AppStrings |->
        calculateNights(z, ci, co)]]]
NightDatesTable ==
    [z \in TimeZones |-> [ci \in AppStrings |->
        [n \in {NaN} \cup {Num(i) : i \in 0..MaxAppNights} |->
            getNightDates(z, ci, n)]]]

\* the night count of a render: calculateNights(checkInDate, checkOutDate)
Nights(s) == NightsTable[tz][s.checkInDate][s.checkOutDate]

\* getNightDates(checkInDate, nights)
NightDates(s, n) == NightDatesTable[tz][s.checkInDate][n]

\* the render of s throws: getNightDates raises, or calculateCosts gets past
\* its early return and iterates over a roster that is no array
RenderThrows(s) ==
    \/ NightDates(s, Nights(s)).raised
    \/ /\ s.people.kind # "array"
       /\ Nights(s) # Num(0)
       /\ ParsePrice(s.totalPrice) # Zero

\* the resized array, without the slice that drops the nights beyond n
ResizeNights_NoSlice(flags, n) ==
    flags \o [j \in 1..Max(0, n - Len(flags)) |-> FALSE]

\* [...p.nights.slice(0, nights),
\*  ...new Array(Math.max(0, nights - p.nights.length)).fill(false)]
ResizeNights(flags, n) ==
    SubSeq(flags, 1, Min(Len(flags), n))
        \o [j \in 1..Max(0, n - Len(flags)) |-> FALSE]

\* prev.people.map of the effect, for the night count n of the render
ResizePeople(items, n) ==
    [k \in DOMAIN items |->
        IF ~n.nan /\ n.v > 0
        THEN [items[k] EXCEPT !.nights = ResizeNights(@, n.v)]
        ELSE [items[k] EXCEPT !.nights = <<>>]]

\* the state the effect sets: s with every attendance array resized
Resized(s) ==
    [s EXCEPT !.people = People(ResizePeople(s.people.items, Nights(s)))]

\* the outcome of the effect after the render of s: updateState writes the
\* hash and sets the resized state, which is rendered
AfterEffect(s, h) ==
    \* prev.people.map is not a function
    IF s.people.kind # "array"
    THEN [state |-> s, hash |-> h, crashed |-> TRUE]
    ELSE [state |-> Resized(s), hash |-> Encode(Resized(s)),
          crashed |-> RenderThrows(Resized(s))]

\* the outcome of rendering the state s set while the hash is h; the effect
\* runs after the first render and after a render whose night count differs
\* from the one before, n0
AfterRender(s, h, first, n0) ==
    IF RenderThrows(s) THEN [state |-> s, hash |-> h, crashed |-> TRUE]
    ELSE IF ~first /\ Nights(s) = n0
    THEN [state |-> s, hash |-> h, crashed |-> FALSE]
    ELSE AfterEffect(s, h)

NoAppRun ==
    /\ state = DefaultState /\ hash = EmptyHash /\ now = 1
    /\ crashed = FALSE /\ lastOp = "none"

----------------------------------------------------------------------------
(* Specification of the date functions: the arguments are drawn in the      *)
(* initial state, then the functions are applied.                           *)

NoDates == Returned(<<>>)

DateStrings == ValidDates \cup {EmptyString, TextString}

NoDateCall ==
    /\ tz = UTC /\ checkIn = EmptyString /\ checkOut = EmptyString
    /\ nightsArg = 0 /\ nightsResult = Num(0) /\ datesResult = NoDates

NoCostCall ==
    /\ people = <<>> /\ totalPrice = Zero /\ nights = 0 /\ costs = <<>>

DatesInit ==
    /\ tz \in TimeZones
    /\ checkIn \in DateStrings
    /\ checkOut \in
         {s \in DateStrings :
            (s.kind = "ymd" /\ checkIn.kind = "ymd") =>
               ((DayOf(s) - DayOf(checkIn)) \in (-MaxSpan)..MaxSpan)}
    /\ nightsArg \in 0..MaxNights
    /\ nightsResult = Num(0)
    /\ datesResult = NoDates
    /\ NoCostCall
    /\ NoAppRun
    /\ phase = "input"

CallCalculateNights ==
    /\ phase = "input"
    /\ nightsResult' = calculateNights(tz, checkIn, checkOut)
    /\ phase' = "nights"
    /\ UNCHANGED <<tz, checkIn, checkOut, nightsArg, datesResult, costVars,
                   appVars>>

CallGetNightDates ==
    /\ phase = "input"
    /\ datesResult' = getNightDates(tz, checkIn, Num(nightsArg))
    /\ phase' = "dates"
    /\ UNCHANGED <<tz, checkIn, checkOut, nightsArg, nightsResult, costVars,
                   appVars>>

DatesNext == CallCalculateNights \/ CallGetNightDates

SpecDates == DatesInit /\ [][DatesNext]_vars

----------------------------------------------------------------------------
(* Specification of calculateCosts: the arguments are drawn in the initial  *)
(* state, then the function is applied.                                     *)

\* the attendance arrays of length len
Flags(len) == [1..len -> BOOLEAN]

\* a roster of k people for n nights; a person's array has a flag for every
\* night, or lacks the one of the last night
Rosters(k, n) ==
    {[i \in 1..k |-> [id |-> ToString(i), nights |-> f[i]]] :
        f \in [1..k -> Flags(n) \cup (IF n > 0 THEN Flags(n - 1) ELSE {})]}

\* the roster of k people who all stay every one of n nights
FullHouse(k, n) ==
    [i \in 1..k |-> [id |-> ToString(i), nights |-> [j \in 1..n |-> TRUE]]]

Prices ==
    {FromInt(0), FromInt(100), FromInt(300), Decimal(1234, 100), FromInt(-100)}

CostsInit ==
    /\ NoDateCall
    /\ totalPrice \in Prices
    /\ \/ /\ nights \in 0..MaxCostNights
          /\ \E k \in 0..MaxPeople : people \in Rosters(k, nights)
       \/ /\ nights \in 1..MaxStay
          /\ \E k \in 1..MaxPeople : people = FullHouse(k, nights)
    /\ costs = <<>>
    /\ NoAppRun
    /\ phase = "input"

CallCalculateCosts ==
    /\ phase = "input"
    /\ costs' = calculateCosts(people, totalPrice, nights)
    /\ phase' = "costs"
    /\ UNCHANGED <<dateVars, people, totalPrice, nights, appVars>>

CostsNext == CallCalculateCosts

SpecCosts == CostsInit /\ [][CostsNext]_vars

----------------------------------------------------------------------------
(* Specification of App: the page is loaded with some hash, then the user   *)
(* edits the form, the roster and the address bar.  An action is a whole    *)
(* handler with the render and the effect that follow it.  The host is in   *)
(* UTC.                                                                     *)

\* the texts the price input is set to
AppPrices == {EmptyPrice, PriceString(100)}

\* the names typed into a name input
AppNames == {"", "Ann"}

\* "#%": no percent-encoding
UndecodableHash == Hash("undecodable", NoFields)
\* "#abc": no JSON text
NotJsonHash == Hash("notjson", NoFields)
\* "#null"
NullHash == Hash("null", NoFields)
\* "#5"
ScalarHash == Hash("scalar", NoFields)
\* "#%7B%7D", the object {}
NoFieldsHash == Hash("object", NoFields)
\* the object {"people":5}
NumberPeopleHash ==
    Hash("object",
         AppState(UndefinedPrice, UndefinedString, UndefinedString,
                  NumberPeople))
\* the object {"totalPrice":100,"checkInDate":5,"checkOutDate":"abc"}
WrongTypesHash ==
    Hash("object",
         AppState(NumberPrice(100), NumberAsString, TextString,
                  UndefinedPeople))
\* the hash App writes when the check-out date of a one-night stay of Ann,
\* present, is moved a day later, before the effect resizes her array; Ann
\* was added at time 0, before the clock's values
MidEditHash ==
    Encode(AppState(PriceString(100), DateString(2024, 1, 15),
                    DateString(2024, 1, 17),
                    People(<<Person("0", "Ann", <<TRUE>>)>>)))

\* the hashes a page is opened with or navigated to
Hashes ==
    {EmptyHash, UndecodableHash, NotJsonHash, NullHash, ScalarHash,
     NoFieldsHash, NumberPeopleHash, WrongTypesHash, MidEditHash}

\* useState(() => parseStateFromHash()), the first render and its effects
AppInit ==
    /\ NoDateCall /\ NoCostCall /\ phase = "app"
    /\ now = 1
    /\ lastOp = "load"
    /\ \E h \in Hashes :
          LET r == AfterRender(parseStateFromHash(h), h, TRUE, Num(0))
          IN  state = r.state /\ hash = r.hash /\ crashed = r.crashed

\* the state s is set while the hash is h, and rendered
Commit(op, s, h) ==
    LET r == AfterRender(s, h, FALSE, Nights(state))
    IN  /\ state' = r.state
        /\ hash' = r.hash
        /\ crashed' = r.crashed
        /\ lastOp' = op
        /\ UNCHANGED <<dateVars, costVars, phase, now>>

\* updateState(newState): updateHash(updatedState), setState(updatedState)
UpdateState(op, s) == Commit(op, s, Encode(s))

\* the address bar, the back or the forward button changes the hash to h:
\* handleHashChange
HashChange(h) ==
    /\ ~crashed
    /\ h # hash
    /\ Commit("hashchange", parseStateFromHash(h), h)

SetTotalPrice(t) ==
    /\ ~crashed
    /\ t # state.totalPrice
    /\ UpdateState("setTotalPrice", [state EXCEPT !.totalPrice = t])

SetCheckInDate(d) ==
    /\ ~crashed
    /\ d # state.checkInDate
    /\ UpdateState("setCheckInDate", [state EXCEPT !.checkInDate = d])

SetCheckOutDate(d) ==
    /\ ~crashed
    /\ d # state.checkOutDate
    /\ UpdateState("setCheckOutDate", [state EXCEPT !.checkOutDate = d])

\* new Array(nights || 0).fill(false)
NewNights(n) == [j \in 1..(IF n.nan THEN 0 ELSE n.v) |-> FALSE]

\* spreading a roster that is no array throws in the handler, before
\* updateState is reached
addPerson ==
    /\ ~crashed
    /\ state.people.kind = "array"
    /\ Len(state.people.items) < MaxAppPeople
    /\ UpdateState("addPerson",
          [state EXCEPT !.people.items =
              Append(@, Person(ToString(now), "", NewNights(Nights(state))))])

\* prev.people.filter((p) => p.id !== id)
Without(items, id) == SelectSeq(items, LAMBDA p : p.id # id)

\* the remove button of the k-th person listed
removePerson(k) ==
    /\ ~crashed
    /\ state.people.kind = "array"
    /\ k \in DOMAIN state.people.items
    /\ UpdateState("removePerson",
          [state EXCEPT !.people.items = Without(@, @[k].id)])

\* prev.people.map((p) => (p.id === id ? { ...p, name } : p))
Renamed(items, id, name) ==
    [j \in DOMAIN items |->
        IF items[j].id = id THEN [items[j] EXCEPT !.name = name]
        ELSE items[j]]

\* the name input of the k-th person listed
updatePersonName(k, name) ==
    /\ ~crashed
    /\ state.people.kind = "array"
    /\ k \in DOMAIN state.people.items
    /\ name # state.people.items[k].name
    /\ UpdateState("updatePersonName",
          [state EXCEPT !.people.items = Renamed(@, @[k].id, name)])

\* prev.people.map((p) => p.id === personId
\*     ? {...p, nights: p.nights.map((n, i) => i === nightIndex ? !n : n)} : p)
Toggled(items, personId, nightIndex) ==
    [j \in DOMAIN items |->
        IF items[j].id = personId
        THEN [items[j] EXCEPT !.nights =
                 [i \in DOMAIN @ |-> IF i = nightIndex THEN ~@[i] ELSE @[i]]]
        ELSE items[j]]

\* the checkbox of night i (counted from 1) of the k-th person listed; there
\* is one checkbox per night date
toggleNight(k, i) ==
    /\ ~crashed
    /\ state.people.kind = "array"
    /\ k \in DOMAIN state.people.items
    /\ ~Nights(state).nan /\ i \in 1..Nights(state).v
    /\ UpdateState("toggleNight",
          [state EXCEPT !.people.items = Toggled(@, @[k].id, i)])

\* time passes
Tick ==
    /\ now < MaxClock
    /\ now' = now + 1
    /\ UNCHANGED <<dateVars, costVars, phase, state, hash, crashed, lastOp>>

AppNext ==
    \/ \E h \in Hashes : HashChange(h)
    \/ \E t \in AppPrices : SetTotalPrice(t)
    \/ \E d \in AppDates : SetCheckInDate(d)
    \/ \E d \in AppDates : SetCheckOutDate(d)
    \/ addPerson
    \/ \E k \in 1..MaxAppPeople : removePerson(k)
    \/ \E k \in 1..MaxAppPeople : \E name \in AppNames :
          updatePersonName(k, name)
    \/ \E k \in 1..MaxAppPeople : \E i \in 1..MaxAppNights : toggleNight(k, i)
    \/ Tick

SpecApp == AppInit /\ [][AppNext]_vars

\* App with the operations that set the night count and the flags only
ResizeNext ==
    \/ \E h \in Hashes : HashChange(h)
    \/ \E d \in AppDates : SetCheckInDate(d)
    \/ \E d \in AppDates : SetCheckOutDate(d)
    \/ addPerson
    \/ \E k \in 1..MaxAppPeople : \E i \in 1..MaxAppNights : toggleNight(k, i)
    \/ Tick

SpecResize == AppInit /\ [][ResizeNext]_vars

----------------------------------------------------------------------------
(* Claims about the date functions *)

BothValid == checkIn.kind = "ymd" /\ checkOut.kind = "ymd"

\* the string naming the calendar date n days after the valid date s
DatePlus(s, n) ==
    LET civil == CivilFromDays(DayOf(s) + n)
    IN  DateString(civil[1], civil[2], civil[3])

\* C1: for valid dates with check-out strictly after check-in,
\* calculateNights returns the number of calendar days between them.
C1_NightsAreCalendarDays ==
    (phase = "nights" /\ BothValid /\ DayOf(checkOut) > DayOf(checkIn))
        => nightsResult = Num(DayOf(checkOut) - DayOf(checkIn))

\* C2: for any strings, malformed ones included, calculateNights returns
\* the integer 0 when a string is no date, and getNightDates returns a
\* sequence without raising.
C2_MalformedGivesZeroAndNoRaise ==
    /\ (phase = "nights" /\ ~BothValid) => nightsResult = Num(0)
    /\ phase = "dates" => ~datesResult.raised

\* C3: getNightDates(checkIn, N) with a valid check-in and N > 0 returns
\* exactly N dates, element i being the calendar date check-in + i days.
C3_NightDatesStartAtCheckIn ==
    (phase = "dates" /\ checkIn.kind = "ymd" /\ nightsArg > 0)
        => /\ ~datesResult.raised
           /\ Len(datesResult.dates) = nightsArg
           /\ \A i \in 1..nightsArg :
                 datesResult.dates[i] = DatePlus(checkIn, i - 1)

\* C4: calculateNights returns 0 whenever the check-out date is not
\* strictly after the check-in date, for all pairs of valid dates.
C4_NotAfterGivesZero ==
    (phase = "nights" /\ BothValid /\ DayOf(checkOut) <= DayOf(checkIn))
        => nightsResult = Num(0)

C4_Witness ==
    /\ phase = "nights" /\ BothValid
    /\ DayOf(checkOut) < DayOf(checkIn)
    /\ tz = NewYork
    /\ nightsResult = Num(0)

----------------------------------------------------------------------------
(* Claims about calculateCosts *)

Returned_Costs == phase = "costs"

\* the number of people of the whole roster marked present at night i
PresentCount(i) == Cardinality({k \in DOMAIN people : Present(people[k], i)})

\* the sum of a sequence of numbers, added from the left
RECURSIVE SumUpTo(_, _)
SumUpTo(seq, k) == IF k = 0 THEN Zero ELSE FAdd(SumUpTo(seq, k - 1), seq[k])
Sum(seq) == SumUpTo(seq, Len(seq))

\* C5: with N > 0, a non-zero price and a non-empty roster, a person
\* present at night i is charged (totalPrice / N) / (number of people of
\* the whole roster present at i) for it, and a person whose flag at i is
\* false or missing is charged 0.
C5_PerNightShare ==
    (Returned_Costs /\ nights > 0 /\ totalPrice # Zero /\ people # <<>>)
        => \A k \in DOMAIN people : \A i \in 1..nights :
              /\ k \in DOMAIN costs
              /\ i \in DOMAIN costs[k].perNight
              /\ costs[k].perNight[i] =
                    IF Present(people[k], i)
                    THEN FDiv(FDiv(totalPrice, FromInt(nights)),
                              FromInt(PresentCount(i)))
                    ELSE Zero

\* two of three people share night 1, the third has no flag for night 2
C5_Witness ==
    /\ Returned_Costs /\ nights = 2 /\ Len(people) = 3 /\ Len(costs) = 3
    /\ totalPrice = FromInt(100)
    /\ Present(people[1], 1) /\ Present(people[2], 1) /\ ~Present(people[3], 1)
    /\ Len(people[3].nights) = 1
    /\ costs[1].perNight[1] = FromInt(25)
    /\ costs[2].perNight[1] = FromInt(25)
    /\ costs[3].perNight = <<Zero, Zero>>

\* C6: calculateCosts returns an empty sequence if and only if the night
\* count is 0, the total price is 0 or the roster is empty.
C6_EmptyIffNothingToSplit ==
    Returned_Costs
        => (costs = <<>> <=>
              (nights = 0 \/ totalPrice = Zero \/ people = <<>>))

C6_Witness ==
    /\ Returned_Costs /\ costs = <<>>
    /\ nights > 0 /\ people # <<>> /\ totalPrice = Zero
    /\ \E i \in 1..nights : Present(people[1], i)

\* C7: a non-empty result has exactly one record per person of the roster,
\* in roster order, with that person's id and exactly N perNight entries.
C7_OneRecordPerPerson ==
    (Returned_Costs /\ costs # <<>>)
        => /\ Len(costs) = Len(people)
           /\ \A k \in DOMAIN costs :
                 /\ costs[k].personId = people[k].id
                 /\ Len(costs[k].perNight) = nights

C7_Witness ==
    /\ Returned_Costs /\ Len(costs) = 3 /\ nights = 2
    /\ Len(people[2].nights) = 1
    /\ \A k \in 1..3 : ~Present(people[k], 2)
    /\ costs[3].personId = "3"

\* C8: in every cost record, total equals the sum of the record's perNight
\* entries over all N nights.
C8_TotalIsSumOfPerNight ==
    Returned_Costs
        => \A k \in DOMAIN costs : costs[k].total = Sum(costs[k].perNight)

\* 50/3 + 50 is 533/8 and the total is 532/8: the sum is the rounded one
C8_Witness ==
    /\ Returned_Costs /\ Len(costs) = 3 /\ nights = 2
    /\ totalPrice = FromInt(100)
    /\ costs[1].perNight = <<FDiv(FromInt(50), FromInt(3)), FromInt(50)>>
    /\ costs[1].perNight[1] = [m |-> 133, e |-> -3]
    /\ costs[1].total = [m |-> 133, e |-> -1]

\* a single person, present on every one of the N >= 1 nights, and a price
\* that is not 0
SoloFullStay ==
    /\ Returned_Costs /\ Len(people) = 1 /\ nights >= 1 /\ totalPrice # Zero
    /\ \A i \in 1..nights : Present(people[1], i)

\* |x - y| <= n * 2^(1 - Precision) * |y|, in exact arithmetic
WithinRounding(x, y, n) ==
    LET e  == Min(x.e, y.e)
        xx == x.m * Pow2(x.e - e)
        yy == y.m * Pow2(y.e - e)
    IN  Abs(xx - yy) * MinSignificand <= n * Abs(yy)

\* C9 as stated: for a single person present on every one of the N nights,
\* every per-night cost is price/N and the total equals the total price
\* (stated here for the positive prices, which already refute it).
C9_SoloTotalIsPrice ==
    (SoloFullStay /\ totalPrice.m > 0)
        => /\ Len(costs) = 1
           /\ \A i \in 1..nights :
                 /\ i \in DOMAIN costs[1].perNight
                 /\ costs[1].perNight[i] = FDiv(totalPrice, FromInt(nights))
           /\ costs[1].total = totalPrice

\* C9 as amended: every per-night cost is the quotient price/N, and the
\* total is the sum of the N per-night costs, which lies within
\* N * 2^(1 - Precision) * |price| of the total price.
C9_SoloTotalNearPrice ==
    SoloFullStay
        => /\ Len(costs) = 1
           /\ \A i \in 1..nights :
                 /\ i \in DOMAIN costs[1].perNight
                 /\ costs[1].perNight[i] = FDiv(totalPrice, FromInt(nights))
           /\ costs[1].total = Sum(costs[1].perNight)
           /\ WithinRounding(costs[1].total, totalPrice, nights)

\* 100 over 6 nights: six times 100/6 does not add up to 100
C9_Witness ==
    /\ SoloFullStay /\ nights = 6 /\ totalPrice = FromInt(100)
    /\ costs[1].total = Sum(costs[1].perNight)
    /\ costs[1].total # totalPrice

\* C11: a negative total price is passed through the arithmetic: with N > 0
\* and a non-empty roster there is a record for every person, the per-night
\* cost of a person present at night i is the negative number
\* (totalPrice / N) / (people present at i), the cost of a night the person is
\* absent from is 0, and no total is positive.
C11_NegativePricePassesThrough ==
    (Returned_Costs /\ totalPrice.m < 0 /\ nights > 0 /\ people # <<>>)
        => \A k \in DOMAIN people :
              /\ k \in DOMAIN costs
              /\ costs[k].total.m <= 0
              /\ \A i \in 1..nights :
                    /\ i \in DOMAIN costs[k].perNight
                    /\ IF Present(people[k], i)
                       THEN /\ costs[k].perNight[i].m < 0
                            /\ costs[k].perNight[i] =
                                  FDiv(FDiv(totalPrice, FromInt(nights)),
                                       FromInt(PresentCount(i)))
                       ELSE costs[k].perNight[i] = Zero

\* -100 for two nights: the person alone at night 1 is charged -50 for it,
\* the two people of night 2 are charged -25 each
C11_Witness ==
    /\ Returned_Costs /\ totalPrice = FromInt(-100) /\ nights = 2
    /\ Len(people) = 2 /\ Len(costs) = 2
    /\ Present(people[1], 1) /\ ~Present(people[2], 1)
    /\ Present(people[1], 2) /\ Present(people[2], 2)
    /\ costs[1].perNight = <<FromInt(-50), FromInt(-25)>>
    /\ costs[2].perNight = <<Zero, FromInt(-25)>>
    /\ costs[1].total = FromInt(-75)

\* x * y
FMul(x, y) == RoundRatio(x.m * y.m, 1, x.e + y.e)

\* the costs of night i of all people, added from the left in roster order
NightSum(i) == Sum([k \in DOMAIN costs |-> costs[k].perNight[i]])

\* the totals of all people, added from the left in roster order
TotalsSum == Sum([k \in DOMAIN costs |-> costs[k].total])

\* the nights at which somebody is present
OccupiedNights == {i \in 1..nights : PresentCount(i) > 0}

\* calculateCosts has returned records
Split == Returned_Costs /\ costs # <<>>

\* C16 as stated: for every night with somebody present the per-night costs
\* of all people sum to totalPrice / N, and for every other night to 0; the
\* totals of all people sum to totalPrice * (occupied nights) / N, which is
\* the total price when every night is occupied (stated here for the
\* positive prices, which already refute it).
C16_SharesSumToPrice ==
    (Split /\ totalPrice.m > 0)
        => /\ \A i \in 1..nights :
                 NightSum(i) =
                     IF i \in OccupiedNights
                     THEN FDiv(totalPrice, FromInt(nights))
                     ELSE Zero
           /\ TotalsSum =
                 IF OccupiedNights = 1..nights THEN totalPrice
                 ELSE FDiv(FMul(totalPrice,
                                FromInt(Cardinality(OccupiedNights))),
                           FromInt(nights))

\* |x - p * a / b| <= n * 2^(1 - Precision) * |p * a / b|, in exact
\* arithmetic, for numbers x, p and integers a >= 0, b > 0
NearRatio(x, p, a, b, n) ==
    LET e  == Min(x.e, p.e)
        xx == x.m * Pow2(x.e - e) * b
        pp == p.m * Pow2(p.e - e) * a
    IN  Abs(xx - pp) * MinSignificand <= n * Abs(pp)

\* C16 as amended: for a night with c >= 1 people present the per-night
\* costs of all people sum to the nightly price within
\* c * 2^(1 - Precision) of it, and for every other night to exactly 0; the
\* totals of the P people sum to totalPrice * (occupied nights) / N within
\* (N + P) * 2^(1 - Precision) of it.
C16_SharesSumNearPrice ==
    Split
        => /\ \A i \in 1..nights :
                 IF i \in OccupiedNights
                 THEN WithinRounding(NightSum(i),
                                     FDiv(totalPrice, FromInt(nights)),
                                     PresentCount(i))
                 ELSE NightSum(i) = Zero
           /\ NearRatio(TotalsSum, totalPrice, Cardinality(OccupiedNights),
                        nights, nights + Len(people))

\* 300 over 6 nights, three people present throughout: the totals, 99.5
\* each, do not add up to 300
C16_Witness ==
    /\ Split /\ totalPrice = FromInt(300) /\ nights = 6 /\ Len(people) = 3
    /\ OccupiedNights = 1..nights
    /\ TotalsSum # totalPrice
    /\ \A i \in 1..nights : NightSum(i) = FDiv(totalPrice, FromInt(nights))

----------------------------------------------------------------------------
(* Claims about App *)

\* App has rendered the state, and its effects have run, without a throw
Settled == phase = "app" /\ ~crashed

Roster == state.people.items

\* C12: in every settled state reached by loading the page with some hash
\* and then by hash changes, date edits, adding, removing and renaming people
\* and toggling nights, every person's attendance array has as many flags as
\* the current night count (stated here for the states whose night count is
\* a number, which already refute it).
C12_FlagsPerNight ==
    (Settled /\ state.people.kind = "array" /\ ~Nights(state).nan)
        => \A k \in DOMAIN Roster :
              Len(Roster[k].nights) = Nights(state).v

\* the roster after is the roster before with every array cut or padded to
\* n flags: the flags both have are equal, the flags added are false
ResizedFrom(before, after, n) ==
    /\ Len(after) = Len(before)
    /\ \A k \in DOMAIN before :
          /\ k \in DOMAIN after
          /\ after[k].id = before[k].id
          /\ after[k].name = before[k].name
          /\ Len(after[k].nights) = n
          /\ \A i \in DOMAIN after[k].nights :
                after[k].nights[i] =
                    IF i <= Len(before[k].nights) THEN before[k].nights[i]
                    ELSE FALSE

\* the step changes the night count, to a number, and nothing throws
NightCountChanges ==
    /\ Settled /\ Settled'
    /\ state'.people.kind = "array"
    /\ Nights(state') # Nights(state)
    /\ ~Nights(state').nan

\* C13: when the night count changes (by a date edit, or by a hash change
\* that brings another roster), the resize step gives every person an array
\* of the new length in which the positions below min(old length, new
\* length) keep their flag and the new positions are false; when the new
\* night count is 0 every array is empty.
C13_ResizeKeepsPrefix ==
    [][/\ (lastOp' \in {"setCheckInDate", "setCheckOutDate"}
             /\ NightCountChanges)
          => /\ ResizedFrom(Roster, Roster', Nights(state').v)
             /\ Nights(state') = Num(0) =>
                   \A k \in DOMAIN Roster' : Roster'[k].nights = <<>>
       /\ (lastOp' = "hashchange" /\ NightCountChanges)
          => \A h \in Hashes :
                HashChange(h) =>
                   /\ ResizedFrom(parseStateFromHash(h).people.items,
                                  Roster', Nights(state').v)
                   /\ Nights(state') = Num(0) =>
                         \A k \in DOMAIN Roster' : Roster'[k].nights = <<>>
      ]_vars

\* the check-out date of a stay from 15 January has just been set to the
\* 17th: the first person's flag of night 1 is kept, night 2 is new
C13_Witness ==
    /\ Settled /\ lastOp = "setCheckOutDate"
    /\ state.checkInDate = DateString(2024, 1, 15)
    /\ state.checkOutDate = DateString(2024, 1, 17)
    /\ Len(Roster) = 2
    /\ Roster[1].nights = <<TRUE, FALSE>>
    /\ Roster[2].nights = <<FALSE, FALSE>>

\* C14: after any sequence of add-person and remove-person operations the
\* ids of the people of the roster are pairwise distinct (the claim goes on:
\* and an id never changes while its person is in the roster).
C14_IdsDistinct ==
    (Settled /\ state.people.kind = "array")
        => \A j, k \in DOMAIN Roster :
              j # k => Roster[j].id # Roster[k].id

\* C15: for every hash content (empty, not URI-decodable, not JSON, JSON
\* that is no object, an object with missing or wrongly typed fields),
\* loading it yields a usable state: the night, resize and cost computations
\* that follow do not fail, and the roster is an array.
C15_LoadedStateIsUsable ==
    (phase = "app" /\ lastOp \in {"load", "hashchange"})
        => ~crashed /\ state.people.kind = "array"

\* the roster with the flag of night i of the k-th person negated, if the
\* person has one, and nothing else changed
FlagFlipped(items, k, i) ==
    IF i \in DOMAIN items[k].nights
    THEN [items EXCEPT ![k].nights[i] = ~@]
    ELSE items

\* C17: toggleNight(personId, nightIndex) flips the flag at nightIndex of
\* the one person with that id, when the person has a flag there, and leaves
\* every other flag of that person, every other person, the order and the
\* length of the roster, the names, the ids, the price and the dates
\* unchanged; applying it twice restores the original state.
C17_ToggleFlipsOneFlag ==
    [][lastOp' = "toggleNight" =>
          \A k \in 1..MaxAppPeople : \A i \in 1..MaxAppNights :
             toggleNight(k, i) =>
                /\ state' =
                      [state EXCEPT !.people.items = FlagFlipped(@, k, i)]
                /\ Toggled(Roster', Roster'[k].id, i) = Roster]_vars
====
